---- MODULE Spec2Model ----
(***************************************************************************)
(* Bank API (src/src/app.js): the in-memory account store, the session     *)
(* registry, the request-counting admission middleware and the route       *)
(* handlers, as one state machine.  One action per inbound request (the    *)
(* whole middleware chain plus the handler's synchronous part), and one    *)
(* action for the continuation of /transfer that runs after its 500 ms     *)
(* timer.  Node runs each of these to completion on a single thread, so    *)
(* each is one atomic step; steps of different requests interleave freely. *)
(***************************************************************************)
EXTENDS Integers, Sequences, FiniteSets, Bags, TLC

\* ---------------------------------------------------------------- bounds
\* Inbound requests considered in one run (requestCount itself is unbounded).
MaxRequests == 11
\* Transaction records one account may collect in one run, counting those of
\* transfers still waiting in their processing delay.
MaxHistory == 2

\* ---------------------------------------------------------------- inputs
\* A falsy string input: "" or an absent field/header (both take the same
\* branches of !userId, !name, !toUserId, !token and of Map.has).
Missing == ""
Users == {"alice", "bob"}
UserIdInputs == Users \cup {Missing}
NameInputs == {"Alice", Missing}
\* An optional numeric field: << >> is an absent field, <<n>> the number n.
BalanceInputs == {<< >>, <<-100>>}
\* Amounts of /transfer and /loan.  0 also stands for an absent amount
\* (!amount holds for both).
TransferAmounts == {-600, 0, 600}
LoanAmounts == {-600, 0, 10000, 10001}
\* What `token_${Math.random().toString(36).slice(2)}` can evaluate to.
Tokens == {"token_a", "token_b"}
TokenInputs == Tokens \cup {Missing}

\* ---------------------------------------------------------------- state
VARIABLES
    accounts,      \* Map userId -> {name, balance, transactions}
    sessions,      \* Map token -> userId
    requestCount,  \* requests seen by the rate-limit middleware
    pending,       \* transfers past their checks, waiting for the timer
    response       \* what the last step answered: the HTTP status and, for a
                   \* failure, the error_type label given to errorCounter

vars == <<accounts, sessions, requestCount, pending, response>>

\* Map.prototype.has / Map.prototype.set on a map kept as a function.
Has(map, key) == key \in DOMAIN map
MapSet(map, key, value) ==
    [k \in (DOMAIN map) \cup {key} |-> IF k = key THEN value ELSE map[k]]

Reply(status, error_type) == [status |-> status, error_type |-> error_type]
\* No response yet: the process has just started, or the step left its
\* request waiting (a /transfer in its processing delay).
NoReply == Reply(0, "")

Init ==
    /\ accounts = << >>
    /\ sessions = << >>
    /\ requestCount = 0
    /\ pending = EmptyBag
    /\ response = NoReply

\* ------------------------------------------------------------ middleware
\* app.use((req, res, next) => { requestCount++; if (requestCount % 10 === 0) ... })
\* k is the value of requestCount after the increment.
RateLimitEvery == 10
\* Mutant: the test reads the counter before the increment.
rateLimitedBeforeCount(k) == (k - 1) % RateLimitEvery = 0

rateLimited(k) == k % RateLimitEvery = 0

\* Mutant: the middleware counts but does not stop the chain (no return
\* before next()), so the route runs for every request.
rateLimitFallsThrough(next) ==
    /\ requestCount' = requestCount + 1
    /\ next

\* The rate-limit middleware: counts the request, and either answers 429
\* itself (nothing else runs) or calls next(), the rest of the chain.
rateLimit(next) ==
    /\ requestCount' = requestCount + 1
    /\ IF rateLimited(requestCount + 1)
         THEN /\ response' = Reply(429, "rate_limit")
              /\ UNCHANGED <<accounts, sessions, pending>>
         ELSE next

\* const authenticate = (req, res, next) => ...
authenticate(token) == token # Missing /\ Has(sessions, token)
Unauthorized ==
    /\ response' = Reply(401, "unauthorized")
    /\ UNCHANGED <<accounts, sessions, pending>>

\* Records account u holds or is about to receive from waiting transfers.
Load(u) ==
    Len(accounts[u].transactions)
    + BagCardinality([t \in {x \in BagToSet(pending) : x.userId = u} |-> pending[t]])
    + BagCardinality([t \in {x \in BagToSet(pending) : x.toUserId = u} |-> pending[t]])

\* ---------------------------------------------------------------- routes
DefaultBalance == 1000
\* Mutant: the accounts.has(userId) check is missing, so a second
\* registration replaces the account.
registerHandlerOverwrite(userId, name, balance) ==
    IF userId = Missing \/ name = Missing
      THEN /\ response' = Reply(400, "bad_request")
           /\ UNCHANGED <<accounts, sessions, pending>>
    ELSE /\ accounts' = MapSet(accounts, userId,
                [name |-> name,
                 balance |-> IF balance = << >> THEN DefaultBalance ELSE balance[1],
                 transactions |-> << >>])
         /\ response' = Reply(201, "")
         /\ UNCHANGED <<sessions, pending>>

\* app.post('/register', ...)
registerHandler(userId, name, balance) ==
    IF userId = Missing \/ name = Missing
      THEN /\ response' = Reply(400, "bad_request")
           /\ UNCHANGED <<accounts, sessions, pending>>
    ELSE IF Has(accounts, userId)
      THEN /\ response' = Reply(409, "conflict")
           /\ UNCHANGED <<accounts, sessions, pending>>
    ELSE /\ accounts' = MapSet(accounts, userId,
                [name |-> name,
                 balance |-> IF balance = << >> THEN DefaultBalance ELSE balance[1],
                 transactions |-> << >>])
         /\ response' = Reply(201, "")
         /\ UNCHANGED <<sessions, pending>>

Register(userId, name, balance) ==
    /\ requestCount < MaxRequests
    /\ rateLimit(registerHandler(userId, name, balance))
\* Mutant: the accounts.has(userId) check is missing.
loginHandlerNoAccountCheck(userId, token) ==
    /\ sessions' = MapSet(sessions, token, userId)
    /\ response' = Reply(200, "")
    /\ UNCHANGED <<accounts, pending>>

\* app.post('/login', ...)
loginHandler(userId, token) ==
    IF ~Has(accounts, userId)
      THEN /\ response' = Reply(404, "not_found")
           /\ UNCHANGED <<accounts, sessions, pending>>
    ELSE /\ sessions' = MapSet(sessions, token, userId)
         /\ response' = Reply(200, "")
         /\ UNCHANGED <<accounts, pending>>

\* `token` is the value Math.random() yields for this request.
Login(userId, token) ==
    /\ requestCount < MaxRequests
    /\ rateLimit(loginHandler(userId, token))
accountsHandler(token) ==
    IF ~authenticate(token) THEN Unauthorized
    ELSE /\ response' = Reply(200, "")
         /\ UNCHANGED <<accounts, sessions, pending>>

Accounts(token) ==
    /\ requestCount < MaxRequests
    /\ rateLimit(accountsHandler(token))
\* `fail` is the outcome of Math.random() < 0.1; the thrown error is answered
\* by the error-handling middleware.
balanceHandler(token, fail) ==
    IF ~authenticate(token) THEN Unauthorized
    ELSE /\ response' = IF fail THEN Reply(500, "server_error")
                                ELSE Reply(200, "")
         /\ UNCHANGED <<accounts, sessions, pending>>

Balance(token, fail) ==
    /\ requestCount < MaxRequests
    /\ rateLimit(balanceHandler(token, fail))
\* Mutant: the sender.balance < amount check is missing.
transferHandlerNoFundsCheck(token, toUserId, amount) ==
    IF ~authenticate(token) THEN Unauthorized
    ELSE IF toUserId = Missing \/ amount = 0 \/ amount <= 0
      THEN /\ response' = Reply(400, "bad_request")
           /\ UNCHANGED <<accounts, sessions, pending>>
    ELSE IF ~Has(accounts, toUserId)
      THEN /\ response' = Reply(404, "not_found")
           /\ UNCHANGED <<accounts, sessions, pending>>
    ELSE /\ Load(sessions[token]) < MaxHistory
         /\ Load(toUserId) + (IF toUserId = sessions[token] THEN 1 ELSE 0) < MaxHistory
         /\ pending' = pending (+) SetToBag(
                {[userId |-> sessions[token], toUserId |-> toUserId, amount |-> amount]})
         /\ response' = NoReply
         /\ UNCHANGED <<accounts, sessions>>

\* Mutant: the recipient lookup runs before the validation of the body.
transferHandlerRecipientFirst(token, toUserId, amount) ==
    IF ~authenticate(token) THEN Unauthorized
    ELSE IF ~Has(accounts, toUserId)
      THEN /\ response' = Reply(404, "not_found")
           /\ UNCHANGED <<accounts, sessions, pending>>
    ELSE IF toUserId = Missing \/ amount = 0 \/ amount <= 0
      THEN /\ response' = Reply(400, "bad_request")
           /\ UNCHANGED <<accounts, sessions, pending>>
    ELSE IF accounts[sessions[token]].balance < amount
      THEN /\ response' = Reply(400, "insufficient_funds")
           /\ UNCHANGED <<accounts, sessions, pending>>
    ELSE /\ Load(sessions[token]) < MaxHistory
         /\ Load(toUserId) + (IF toUserId = sessions[token] THEN 1 ELSE 0) < MaxHistory
         /\ pending' = pending (+) SetToBag(
                {[userId |-> sessions[token], toUserId |-> toUserId, amount |-> amount]})
         /\ response' = NoReply
         /\ UNCHANGED <<accounts, sessions>>

\* The part of the /transfer handler that runs before its await: the checks.
\* A transfer that passes them waits in `pending` with the sender resolved by
\* authenticate (req.userId), the recipient and the amount.
transferHandler(token, toUserId, amount) ==
    IF ~authenticate(token) THEN Unauthorized
    ELSE IF toUserId = Missing \/ amount = 0 \/ amount <= 0
      THEN /\ response' = Reply(400, "bad_request")
           /\ UNCHANGED <<accounts, sessions, pending>>
    ELSE IF ~Has(accounts, toUserId)
      THEN /\ response' = Reply(404, "not_found")
           /\ UNCHANGED <<accounts, sessions, pending>>
    ELSE IF accounts[sessions[token]].balance < amount
      THEN /\ response' = Reply(400, "insufficient_funds")
           /\ UNCHANGED <<accounts, sessions, pending>>
    ELSE /\ Load(sessions[token]) < MaxHistory
         /\ Load(toUserId) + (IF toUserId = sessions[token] THEN 1 ELSE 0) < MaxHistory
         /\ pending' = pending (+) SetToBag(
                {[userId |-> sessions[token], toUserId |-> toUserId, amount |-> amount]})
         /\ response' = NoReply
         /\ UNCHANGED <<accounts, sessions>>

Transfer(token, toUserId, amount) ==
    /\ requestCount < MaxRequests
    /\ rateLimit(transferHandler(token, toUserId, amount))
\* Mutant: the recipient's new balance is computed from the balance read
\* before the debit (a stale read), which differs for a self-transfer.
commitStaleCredit(accts, t) ==
    LET debited == [accts EXCEPT
            ![t.userId].balance = @ - t.amount,
            ![t.userId].transactions = Append(@,
                [type |-> "debit", amount |-> t.amount, to |-> t.toUserId])]
    IN  [debited EXCEPT
            ![t.toUserId].balance = accts[t.toUserId].balance + t.amount,
            ![t.toUserId].transactions = Append(@,
                [type |-> "credit", amount |-> t.amount, from |-> t.userId])]

\* Mutant: the continuation stops after the debit; the credit is left out.
commitDebitOnly(accts, t) ==
    [accts EXCEPT
        ![t.userId].balance = @ - t.amount,
        ![t.userId].transactions = Append(@,
            [type |-> "debit", amount |-> t.amount, to |-> t.toUserId])]

\* Mutant: the credit record names the recipient, not the sender, as its
\* counterparty.
commitWrongCounterparty(accts, t) ==
    LET debited == [accts EXCEPT
            ![t.userId].balance = @ - t.amount,
            ![t.userId].transactions = Append(@,
                [type |-> "debit", amount |-> t.amount, to |-> t.toUserId])]
    IN  [debited EXCEPT
            ![t.toUserId].balance = @ + t.amount,
            ![t.toUserId].transactions = Append(@,
                [type |-> "credit", amount |-> t.amount, from |-> t.toUserId])]

\* Mutant: the records are put at the front of the histories (unshift), not
\* at the end (push).
commitUnshift(accts, t) ==
    LET debited == [accts EXCEPT
            ![t.userId].balance = @ - t.amount,
            ![t.userId].transactions =
                <<[type |-> "debit", amount |-> t.amount, to |-> t.toUserId]>> \o @]
    IN  [debited EXCEPT
            ![t.toUserId].balance = @ + t.amount,
            ![t.toUserId].transactions =
                <<[type |-> "credit", amount |-> t.amount, from |-> t.userId]>> \o @]

\* The four statements after the await, in order: debit the sender, push the
\* debit record, credit the recipient, push the credit record.
commit(accts, t) ==
    LET debited == [accts EXCEPT
            ![t.userId].balance = @ - t.amount,
            ![t.userId].transactions = Append(@,
                [type |-> "debit", amount |-> t.amount, to |-> t.toUserId])]
    IN  [debited EXCEPT
            ![t.toUserId].balance = @ + t.amount,
            ![t.toUserId].transactions = Append(@,
                [type |-> "credit", amount |-> t.amount, from |-> t.userId])]

\* Mutant: the continuation first waits for a lock on its recipient that a
\* waiting transfer out of that recipient holds.
TransferCommitWaitsForPeer(t) ==
    /\ BagIn(t, pending)
    /\ ~\E q \in BagToSet(pending) : q # t /\ q.userId = t.toUserId
    /\ accounts' = commit(accounts, t)
    /\ pending' = pending (-) SetToBag({t})
    /\ response' = Reply(200, "")
    /\ UNCHANGED <<sessions, requestCount>>

\* The continuation of a waiting transfer t: its timer has fired.
TransferCommit(t) ==
    /\ BagIn(t, pending)
    /\ accounts' = commit(accounts, t)
    /\ pending' = pending (-) SetToBag({t})
    /\ response' = Reply(200, "")
    /\ UNCHANGED <<sessions, requestCount>>

MaxLoan == 10000
\* Mutant: the cap is tested with >= instead of >.
loanHandlerCapOffByOne(token, amount) ==
    IF ~authenticate(token) THEN Unauthorized
    ELSE IF amount = 0 \/ amount <= 0 \/ amount >= MaxLoan
      THEN /\ response' = Reply(400, "bad_request")
           /\ UNCHANGED <<accounts, sessions, pending>>
    ELSE /\ Load(sessions[token]) < MaxHistory
         /\ accounts' = [accounts EXCEPT
                ![sessions[token]].balance = @ + amount,
                ![sessions[token]].transactions = Append(@,
                    [type |-> "loan", amount |-> amount])]
         /\ response' = Reply(200, "")
         /\ UNCHANGED <<sessions, pending>>

\* Mutant: the loan raises the balance but pushes no record.
loanHandlerNoRecord(token, amount) ==
    IF ~authenticate(token) THEN Unauthorized
    ELSE IF amount = 0 \/ amount <= 0 \/ amount > MaxLoan
      THEN /\ response' = Reply(400, "bad_request")
           /\ UNCHANGED <<accounts, sessions, pending>>
    ELSE /\ Load(sessions[token]) < MaxHistory
         /\ accounts' = [accounts EXCEPT ![sessions[token]].balance = @ + amount]
         /\ response' = Reply(200, "")
         /\ UNCHANGED <<sessions, pending>>

\* app.post('/loan', authenticate, ...)
loanHandler(token, amount) ==
    IF ~authenticate(token) THEN Unauthorized
    ELSE IF amount = 0 \/ amount <= 0 \/ amount > MaxLoan
      THEN /\ response' = Reply(400, "bad_request")
           /\ UNCHANGED <<accounts, sessions, pending>>
    ELSE /\ Load(sessions[token]) < MaxHistory
         /\ accounts' = [accounts EXCEPT
                ![sessions[token]].balance = @ + amount,
                ![sessions[token]].transactions = Append(@,
                    [type |-> "loan", amount |-> amount])]
         /\ response' = Reply(200, "")
         /\ UNCHANGED <<sessions, pending>>

Loan(token, amount) ==
    /\ requestCount < MaxRequests
    /\ rateLimit(loanHandler(token, amount))
\* Mutant: the route is registered without the authenticate middleware.
statementHandlerNoAuth(token) ==
    /\ response' = Reply(200, "")
    /\ UNCHANGED <<accounts, sessions, pending>>

\* Mutant: the handler reverses the history in place (Array.prototype.reverse)
\* to answer newest first.
statementHandlerReverse(token) ==
    IF ~authenticate(token) THEN Unauthorized
    ELSE /\ accounts' = [accounts EXCEPT ![sessions[token]].transactions =
                [i \in 1..Len(@) |-> @[Len(@) + 1 - i]]]
         /\ response' = Reply(200, "")
         /\ UNCHANGED <<sessions, pending>>

\* app.get('/statement', authenticate, ...)
statementHandler(token) ==
    IF ~authenticate(token) THEN Unauthorized
    ELSE /\ response' = Reply(200, "")
         /\ UNCHANGED <<accounts, sessions, pending>>

\* The body /statement answers with for a valid token.
statementBody(token) ==
    [userId |-> sessions[token],
     transactions |-> accounts[sessions[token]].transactions]

Statement(token) ==
    /\ requestCount < MaxRequests
    /\ rateLimit(statementHandler(token))
metricsHandler ==
    /\ response' = Reply(200, "")
    /\ UNCHANGED <<accounts, sessions, pending>>

Metrics ==
    /\ requestCount < MaxRequests
    /\ rateLimit(metricsHandler)
\* One inbound HTTP request, through the middleware chain and its route.
Request ==
    \/ \E u \in UserIdInputs, n \in NameInputs, b \in BalanceInputs : Register(u, n, b)
    \/ \E u \in UserIdInputs, t \in Tokens : Login(u, t)
    \/ \E t \in TokenInputs : Accounts(t)
    \/ \E t \in TokenInputs, f \in BOOLEAN : Balance(t, f)
    \/ \E t \in TokenInputs, u \in UserIdInputs, a \in TransferAmounts : Transfer(t, u, a)
    \/ \E t \in TokenInputs, a \in LoanAmounts : Loan(t, a)
    \/ \E t \in TokenInputs : Statement(t)
    \/ Metrics

Next ==
    \/ Request
    \/ \E t \in BagToSet(pending) : TransferCommit(t)

Spec == Init /\ [][Next]_vars

\* The transfers that can wait: sender and recipient with accounts, a
\* positive amount.
TransferRecords ==
    [userId : Users, toUserId : Users, amount : {a \in TransferAmounts : a > 0}]

\* The server under a fair event loop: the 500 ms timer of every waiting
\* transfer fires and its continuation runs.
FairSpec == Spec /\ \A t \in TransferRecords : WF_vars(TransferCommit(t))

\* A scenario with a third account: three users register with the default
\* balance, two of them log in and send transfers to any of the three.
ThirdUser == "carol"
ThreeUsers == Users \cup {ThirdUser}
RequestThree ==
    \/ \E u \in ThreeUsers : Register(u, "Alice", << >>)
    \/ \E u \in Users, t \in Tokens : Login(u, t)
    \/ \E t \in Tokens, u \in ThreeUsers : Transfer(t, u, 600)

NextThree ==
    \/ RequestThree
    \/ \E t \in BagToSet(pending) : TransferCommit(t)

SpecThree == Init /\ [][NextThree]_vars


\* ============================================================ properties
\* Helpers of the properties below.
RECURSIVE SumOver(_, _)
SumOver(f, S) ==
    IF S = {} THEN 0
    ELSE LET x == CHOOSE y \in S : TRUE IN f[x] + SumOver(f, S \ {x})
TotalBalance(accts) ==
    SumOver([u \in DOMAIN accts |-> accts[u].balance], DOMAIN accts)

\* The records a step appends to the history of an account that existed
\* before the step.
Added(u) ==
    SubSeq(accounts'[u].transactions,
           Len(accounts[u].transactions) + 1, Len(accounts'[u].transactions))
Signed(r) == IF r.type = "debit" THEN 0 - r.amount ELSE r.amount
RECURSIVE Net(_)
Net(recs) == IF recs = << >> THEN 0 ELSE Signed(Head(recs)) + Net(Tail(recs))

\* The step is the continuation of waiting transfer t (it leaves `pending`).
CommitOf(t) == BagIn(t, pending) /\ pending' = pending (-) SetToBag({t})
\* The request of this step passes the rate-limit middleware.
Admitted == ~((requestCount + 1) % 10 = 0)
Frame == UNCHANGED <<accounts, sessions, pending>>

\* ---------------------------------------------------------------------
\* C1: in every reachable state every account's balance is >= 0, whatever
\* the sequence and interleaving of requests (overlapping transfers of one
\* sender included).
C1_NoNegativeBalance ==
    \A u \in DOMAIN accounts : accounts[u].balance >= 0

\* ---------------------------------------------------------------------
\* C2: every transfer commit leaves the sum of all balances unchanged; a
\* commit of amount a from A to B # A decreases A by exactly a and increases
\* B by exactly a, and a self-transfer leaves the balance as it was.
C2_Conservation ==
    [][\A t \in BagToSet(pending) : CommitOf(t) =>
          /\ TotalBalance(accounts') = TotalBalance(accounts)
          /\ IF t.userId # t.toUserId
               THEN /\ accounts'[t.userId].balance
                         = accounts[t.userId].balance - t.amount
                    /\ accounts'[t.toUserId].balance
                         = accounts[t.toUserId].balance + t.amount
               ELSE accounts'[t.userId].balance = accounts[t.userId].balance
      ]_vars

\* Two transfers from one sender to another account have both committed.
C2_Witness ==
    /\ response = Reply(200, "")
    /\ \E u \in DOMAIN accounts :
         /\ Len(accounts[u].transactions) = 2
         /\ \A i \in DOMAIN accounts[u].transactions :
              /\ accounts[u].transactions[i].type = "debit"
              /\ accounts[u].transactions[i].to # u

\* ---------------------------------------------------------------------
\* C3: a transfer commit is one indivisible step: whenever a step appends a
\* debit record to a sender's history, the same step appends the matching
\* credit record to the recipient's history (and the other way round), and
\* the same step changes each balance by exactly the records it appends; no
\* state shows a debit without its credit.
C3_AtomicCommit ==
    [][accounts' # accounts => \A u \in DOMAIN accounts :
          /\ Len(accounts'[u].transactions) >= Len(accounts[u].transactions)
          /\ accounts'[u].balance - accounts[u].balance = Net(Added(u))
          /\ \A i \in DOMAIN Added(u) :
               LET r == Added(u)[i] IN
               /\ r.type = "debit" =>
                    \E j \in DOMAIN Added(r.to) : Added(r.to)[j] =
                        [type |-> "credit", amount |-> r.amount, from |-> u]
               /\ r.type = "credit" =>
                    \E j \in DOMAIN Added(r.from) : Added(r.from)[j] =
                        [type |-> "debit", amount |-> r.amount, to |-> u]
      ]_vars

\* A transfer between two accounts has just committed while another transfer
\* is still waiting.
C3_Witness ==
    /\ response = Reply(200, "")
    /\ pending # EmptyBag
    /\ \E s, r \in DOMAIN accounts :
         /\ s # r
         /\ accounts[s].transactions # << >>
         /\ accounts[r].transactions # << >>
         /\ accounts[s].transactions[Len(accounts[s].transactions)].type = "debit"
         /\ accounts[r].transactions[Len(accounts[r].transactions)].type = "credit"

\* ---------------------------------------------------------------------
\* C4: a /transfer request that is answered with a failure changes no
\* account, no session and starts no transfer; and an admitted, authenticated
\* transfer of a positive amount to an existing recipient whose amount
\* exceeds the sender's balance is answered InsufficientFunds.
C4_FailedTransferChangesNothing ==
    \A t \in TokenInputs, u \in UserIdInputs, a \in TransferAmounts :
       /\ ~ENABLED ( /\ Transfer(t, u, a)
                     /\ response' # NoReply
                     /\ ~(response'.status \in {400, 401, 404, 429} /\ Frame) )
       /\ ( /\ requestCount < MaxRequests
            /\ Admitted
            /\ authenticate(t)
            /\ Has(accounts, u)
            /\ a > 0
            /\ a > accounts[sessions[t]].balance )
          => /\ ENABLED Transfer(t, u, a)
             /\ ~ENABLED ( /\ Transfer(t, u, a)
                           /\ ~(response' = Reply(400, "insufficient_funds") /\ Frame) )

\* After a committed transfer of 600 out of 1000, a further transfer was
\* refused for insufficient funds.
C4_Witness ==
    /\ response = Reply(400, "insufficient_funds")
    /\ \E u \in DOMAIN accounts :
         /\ accounts[u].balance = 400
         /\ accounts[u].transactions # << >>

\* ---------------------------------------------------------------------
\* C5: a /register request naming a userId that already has an account
\* changes no account (name, balance and history stay), creates none and
\* changes no session; when admitted and carrying a name it is answered
\* Conflict.
C5_DuplicateRegister ==
    \A u \in DOMAIN accounts, n \in NameInputs, b \in BalanceInputs :
       /\ ~ENABLED (Register(u, n, b) /\ ~Frame)
       /\ (requestCount < MaxRequests /\ Admitted /\ n # Missing)
          => /\ ENABLED Register(u, n, b)
             /\ ~ENABLED (Register(u, n, b) /\ response' # Reply(409, "conflict"))

\* A duplicate registration was refused after the account had moved money.
C5_Witness ==
    /\ response = Reply(409, "conflict")
    /\ \E u \in DOMAIN accounts : accounts[u].transactions # << >>


\* ---------------------------------------------------------------------
\* C6: session tokens are never reassigned: the token a login stores was not
\* in the session registry before, and a token that maps to an account maps
\* to the same account after every later step.
C6_TokensNeverReassigned ==
    [][/\ \A t \in DOMAIN sessions :
            t \in DOMAIN sessions' /\ sessions'[t] = sessions[t]
       /\ \A u \in UserIdInputs, t \in Tokens :
            (Login(u, t) /\ response' = Reply(200, "")) => ~Has(sessions, t)
      ]_vars

\* ---------------------------------------------------------------------
\* C7: an admitted /transfer, /loan, /statement, /balance or /accounts
\* request whose token is missing or is not in the session registry is
\* answered Unauthorized and changes no account, no history and no session.
C7_InvalidTokenUnauthorized ==
    \A t \in TokenInputs :
       (~authenticate(t) /\ Admitted) =>
          ~ENABLED ( /\ \/ \E u \in UserIdInputs, a \in TransferAmounts : Transfer(t, u, a)
                        \/ \E a \in LoanAmounts : Loan(t, a)
                        \/ Statement(t)
                        \/ \E f \in BOOLEAN : Balance(t, f)
                        \/ Accounts(t)
                     /\ ~(response' = Reply(401, "unauthorized") /\ Frame) )

\* A request was refused as unauthorized while accounts exist and one of the
\* two tokens is issued and the other is not.
C7_Witness ==
    /\ response = Reply(401, "unauthorized")
    /\ DOMAIN accounts = Users
    /\ DOMAIN sessions # {}
    /\ DOMAIN sessions # Tokens

\* ---------------------------------------------------------------------
\* C8: the request counter never decreases; every step that is an inbound
\* request (every step but the continuation of a waiting transfer) raises
\* it by exactly 1, and that request, the k-th, is answered RateLimited
\* exactly when k is a multiple of 10.
C8_GatePolicy ==
    [][/\ requestCount' >= requestCount
       /\ IF \E t \in BagToSet(pending) : CommitOf(t)
            THEN requestCount' = requestCount
            ELSE /\ requestCount' = requestCount + 1
                 /\ (response' = Reply(429, "rate_limit"))
                      <=> (requestCount' % 10 = 0)
      ]_vars

\* The tenth request was rejected and the eleventh was admitted.
C8_Witness ==
    /\ requestCount = 11
    /\ response.status # 429
    /\ response # NoReply

\* ---------------------------------------------------------------------
\* C9: a request rejected by the rate limiter changes nothing but the
\* request counter: accounts, histories, sessions and waiting transfers stay
\* as they were, whatever the request was; and every request that arrives
\* when the counter reaches a multiple of 10 is so rejected.
C9_RejectedReachesNothing ==
    [][/\ response' = Reply(429, "rate_limit") =>
            Frame /\ requestCount' = requestCount + 1
       /\ (~Admitted /\ ~(\E t \in BagToSet(pending) : CommitOf(t))) =>
            response' = Reply(429, "rate_limit") /\ Frame
      ]_vars

\* A request was rejected in a state where a register would have been
\* new, and a login, a transfer and a loan would have been valid.
C9_Witness ==
    /\ response = Reply(429, "rate_limit")
    /\ DOMAIN accounts # {}
    /\ DOMAIN accounts # Users
    /\ \E t \in DOMAIN sessions :
         /\ accounts[sessions[t]].balance >= 600
         /\ Load(sessions[t]) < MaxHistory

\* ---------------------------------------------------------------------
\* C10: an admitted /loan request with a valid session is answered
\* BadRequest and changes nothing when its amount is not in (0, 10000];
\* otherwise it raises the caller's balance by exactly the amount, appends
\* exactly one loan record of that amount to the caller's history and
\* changes no other account.
C10_Loan ==
    \A t \in DOMAIN sessions, a \in LoanAmounts :
       Admitted =>
          LET me == sessions[t] IN
          IF a <= 0 \/ a > 10000
            THEN ~ENABLED ( /\ Loan(t, a)
                            /\ ~(response' = Reply(400, "bad_request") /\ Frame) )
            ELSE ~ENABLED ( /\ Loan(t, a)
                            /\ ~( /\ response' = Reply(200, "")
                                  /\ DOMAIN accounts' = DOMAIN accounts
                                  /\ accounts'[me].balance = accounts[me].balance + a
                                  /\ accounts'[me].transactions =
                                        Append(accounts[me].transactions,
                                               [type |-> "loan", amount |-> a])
                                  /\ accounts'[me].name = accounts[me].name
                                  /\ \A o \in DOMAIN accounts \ {me} :
                                        accounts'[o] = accounts[o]
                                  /\ UNCHANGED <<sessions, pending>> ) )

\* A loan of exactly the cap was granted to an account that had already
\* received a transfer, while the other account exists.
C10_Witness ==
    /\ response = Reply(200, "")
    /\ DOMAIN accounts = Users
    /\ \E u \in DOMAIN accounts :
         /\ Len(accounts[u].transactions) = 2
         /\ accounts[u].transactions[1].type = "credit"
         /\ accounts[u].transactions[2] = [type |-> "loan", amount |-> 10000]

\* ---------------------------------------------------------------------
\* C11: the commit of a transfer of amount a from S to R appends exactly one
\* debit record (amount a, counterparty R) to S's history and exactly one
\* credit record (amount a, counterparty S) to R's history (the debit before
\* the credit when S = R), and leaves every account other than S and R,
\* balance and history, as it was.
C11_CommitRecords ==
    [][\A t \in BagToSet(pending) : CommitOf(t) =>
          LET debit  == [type |-> "debit", amount |-> t.amount, to |-> t.toUserId]
              credit == [type |-> "credit", amount |-> t.amount, from |-> t.userId]
          IN
          /\ DOMAIN accounts' = DOMAIN accounts
          /\ IF t.userId # t.toUserId
               THEN /\ accounts'[t.userId].transactions =
                         Append(accounts[t.userId].transactions, debit)
                    /\ accounts'[t.toUserId].transactions =
                         Append(accounts[t.toUserId].transactions, credit)
               ELSE accounts'[t.userId].transactions =
                         accounts[t.userId].transactions \o <<debit, credit>>
          /\ \A o \in DOMAIN accounts \ {t.userId, t.toUserId} :
                accounts'[o] = accounts[o]
      ]_vars

\* Three accounts exist; a transfer between two of them has committed and
\* the third, which had received a transfer before, kept its one record.
C11_Witness ==
    /\ response = Reply(200, "")
    /\ DOMAIN accounts = ThreeUsers
    /\ \E s, r \in Users :
         /\ s # r
         /\ accounts[s].transactions =
               << [type |-> "debit", amount |-> 600, to |-> r] >>
         /\ accounts[r].transactions =
               << [type |-> "debit", amount |-> 600, to |-> ThirdUser],
                  [type |-> "credit", amount |-> 600, from |-> s] >>
         /\ accounts[ThirdUser].transactions =
               << [type |-> "credit", amount |-> 600, from |-> r] >>
         /\ accounts[ThirdUser].balance = 1600

\* ---------------------------------------------------------------------
\* C12: histories are append-only and in commit order: in every step every
\* account stays, and its history before the step is a prefix of its history
\* after the step, so a record is never removed, changed or placed before an
\* older one; waiting transfers commit in any order, whatever the order in
\* which they started.
C12_AppendOnly ==
    [][\A u \in DOMAIN accounts :
          /\ u \in DOMAIN accounts'
          /\ Len(accounts'[u].transactions) >= Len(accounts[u].transactions)
          /\ SubSeq(accounts'[u].transactions, 1, Len(accounts[u].transactions))
                = accounts[u].transactions
      ]_vars

\* Two transfers in opposite directions have committed, and both histories
\* hold their two records in the order of the commits.
C12_Witness ==
    /\ response = Reply(200, "")
    /\ pending = EmptyBag
    /\ \E s, r \in DOMAIN accounts :
         /\ s # r
         /\ accounts[s].transactions =
               << [type |-> "debit", amount |-> 600, to |-> r],
                  [type |-> "credit", amount |-> 600, from |-> r] >>
         /\ accounts[r].transactions =
               << [type |-> "credit", amount |-> 600, from |-> s],
                  [type |-> "debit", amount |-> 600, to |-> s] >>

\* ---------------------------------------------------------------------
\* C13: two transfers of one amount in opposite directions between A and B
\* that overlap: an admitted, authenticated transfer of a positive amount to
\* another existing account either fails InsufficientFunds, changing
\* nothing, or is accepted and waits; every waiting transfer can commit, and
\* its commit leaves balance(A) + balance(B) as it was; and when both
\* directions wait at once, committing both, in either order, brings both
\* balances back to the values they had.
C13_OppositeTransfers ==
    /\ \A tk \in DOMAIN sessions, u \in DOMAIN accounts, a \in TransferAmounts :
          (Admitted /\ a > 0 /\ u # sessions[tk]) =>
             ~ENABLED ( /\ Transfer(tk, u, a)
                        /\ ~ \/ response' = Reply(400, "insufficient_funds") /\ Frame
                             \/ /\ response' = NoReply
                                /\ pending' = pending (+) SetToBag(
                                      {[userId |-> sessions[tk], toUserId |-> u,
                                        amount |-> a]})
                                /\ UNCHANGED <<accounts, sessions>> )
    /\ \A p \in BagToSet(pending) :
          p.userId # p.toUserId =>
             /\ ENABLED TransferCommit(p)
             /\ ~ENABLED ( /\ TransferCommit(p)
                           /\ ~ /\ response' = Reply(200, "")
                                /\ accounts'[p.userId].balance
                                     + accounts'[p.toUserId].balance
                                   = accounts[p.userId].balance
                                     + accounts[p.toUserId].balance )
    /\ \A p, q \in BagToSet(pending) :
          ( /\ p.userId # p.toUserId
            /\ q.userId = p.toUserId
            /\ q.toUserId = p.userId
            /\ q.amount = p.amount )
          => LET both == commit(commit(accounts, p), q) IN
             /\ both[p.userId].balance = accounts[p.userId].balance
             /\ both[q.userId].balance = accounts[q.userId].balance

\* A transfer from A to B and a transfer of the same amount from B to A
\* wait at the same time.
C13_Witness ==
    \E a, b \in DOMAIN accounts :
       /\ a # b
       /\ BagIn([userId |-> a, toUserId |-> b, amount |-> 600], pending)
       /\ BagIn([userId |-> b, toUserId |-> a, amount |-> 600], pending)

\* ---------------------------------------------------------------------
\* C14: the read operations are pure and repeatable: a /statement, /balance
\* (answering or failing with the injected server error) or /accounts
\* request changes no account, no history, no session and no waiting
\* transfer, whatever its token; and the body /statement answers with is the
\* same before and after a /statement request, so two calls with no
\* mutation in between return the same sequence.
C14_ReadsArePure ==
    \A t \in TokenInputs :
       /\ ~ENABLED ( /\ \/ Statement(t)
                        \/ \E f \in BOOLEAN : Balance(t, f)
                        \/ Accounts(t)
                     /\ ~Frame )
       /\ authenticate(t) =>
            ~ENABLED ( /\ Statement(t)
                       /\ (statementBody(t))' # statementBody(t) )
       /\ (authenticate(t) /\ Admitted /\ requestCount < MaxRequests) =>
            /\ ENABLED (Balance(t, TRUE) /\ response' = Reply(500, "server_error"))
            /\ ENABLED (Statement(t) /\ response' = Reply(200, ""))

\* /balance has failed with the injected server error for a caller whose
\* history holds two different records.
C14_Witness ==
    /\ response = Reply(500, "server_error")
    /\ \E t \in DOMAIN sessions :
         /\ Len(accounts[sessions[t]].transactions) = 2
         /\ accounts[sessions[t]].transactions[1]
              # accounts[sessions[t]].transactions[2]

\* ---------------------------------------------------------------------
\* C15: a transfer is validated and committed as one unit: while a transfer
\* waits between its passed balance check and its commit, no step changes
\* the balance of its sender or of its recipient.
C15_CheckAndCommitAreOneUnit ==
    [][\A p \in BagToSet(pending) \cap BagToSet(pending') :
          /\ accounts'[p.userId].balance = accounts[p.userId].balance
          /\ accounts'[p.toUserId].balance = accounts[p.toUserId].balance
      ]_vars

\* ---------------------------------------------------------------------
\* C16: failure precedence of an admitted /transfer request: an invalid
\* session is answered Unauthorized whatever else is wrong; otherwise a
\* missing toUserId or an amount <= 0 is answered BadRequest, also when the
\* recipient does not exist; otherwise an unknown recipient is answered
\* NotFound, also when the sender could not afford the amount; otherwise a
\* sender balance below the amount is answered InsufficientFunds; a failure
\* changes nothing, and only a request that passes all four checks starts a
\* transfer.
C16_TransferPrecedence ==
    \A t \in TokenInputs, u \in UserIdInputs, a \in TransferAmounts :
       Admitted =>
          LET expected ==
                IF ~(t \in DOMAIN sessions) THEN Reply(401, "unauthorized")
                ELSE IF u = Missing \/ a <= 0 THEN Reply(400, "bad_request")
                ELSE IF ~(u \in DOMAIN accounts) THEN Reply(404, "not_found")
                ELSE IF accounts[sessions[t]].balance < a
                  THEN Reply(400, "insufficient_funds")
                ELSE NoReply
          IN ~ENABLED ( /\ Transfer(t, u, a)
                        /\ ~ /\ response' = expected
                             /\ IF expected = NoReply
                                  THEN /\ pending' = pending (+) SetToBag(
                                            {[userId |-> sessions[t], toUserId |-> u,
                                              amount |-> a]})
                                       /\ UNCHANGED <<accounts, sessions>>
                                  ELSE Frame )

\* A request was answered NotFound in a state where a logged-in sender has
\* less than 600 and one of the users has no account: a transfer of 600 to
\* that user fails both the recipient lookup and the funds check.
C16_Witness ==
    /\ response = Reply(404, "not_found")
    /\ DOMAIN accounts # Users
    /\ \E t \in DOMAIN sessions : accounts[sessions[t]].balance < 600

\* ---------------------------------------------------------------------
\* C17: an admitted /login for a userId that has no account is answered
\* NotFound and changes nothing; an admitted /login for a userId that has an
\* account adds exactly one session entry, which maps the returned token to
\* that userId, and changes no account and no other session entry.
C17_Login ==
    [][\A u \in UserIdInputs, t \in Tokens :
          (Login(u, t) /\ response'.status # 429) =>
             IF ~(u \in DOMAIN accounts)
               THEN response' = Reply(404, "not_found") /\ Frame
               ELSE /\ response' = Reply(200, "")
                    /\ Cardinality(DOMAIN sessions')
                         = Cardinality(DOMAIN sessions) + 1
                    /\ sessions'[t] = u
                    /\ \A o \in DOMAIN sessions \ {t} :
                          o \in DOMAIN sessions' /\ sessions'[o] = sessions[o]
                    /\ UNCHANGED <<accounts, pending>>
      ]_vars

\* What holds of /login whether or not the generated token is new: the
\* account check, the entry for the token, and all other entries and all
\* accounts untouched.
C17_LoginButForFreshness ==
    \A u \in UserIdInputs, t \in Tokens :
       Admitted =>
          ~ENABLED ( /\ Login(u, t)
                     /\ ~ IF ~(u \in DOMAIN accounts)
                            THEN response' = Reply(404, "not_found") /\ Frame
                            ELSE /\ response' = Reply(200, "")
                                 /\ DOMAIN sessions' = DOMAIN sessions \cup {t}
                                 /\ sessions'[t] = u
                                 /\ \A o \in DOMAIN sessions \ {t} :
                                       sessions'[o] = sessions[o]
                                 /\ UNCHANGED <<accounts, pending>> )

\* ---------------------------------------------------------------------
\* C18: no deadlock and guaranteed completion: the continuation of every
\* waiting transfer can always run, whatever else waits (transfers in the
\* opposite direction, transfers sharing its sender or recipient), and under
\* a fair event loop every transfer that waits eventually completes.
C18_Completion ==
    /\ [](\A p \in BagToSet(pending) : ENABLED TransferCommit(p))
    /\ \A p \in TransferRecords : BagIn(p, pending) ~> ~BagIn(p, pending)

\* Two transfers out of one account of 1000 overlapped and both have
\* completed; nothing waits any more.
C18_Witness ==
    /\ pending = EmptyBag
    /\ response = Reply(200, "")
    /\ \E s \in DOMAIN accounts :
         /\ accounts[s].balance = DefaultBalance - 1200
         /\ Len(accounts[s].transactions) = 2

\* ---------------------------------------------------------------------
\* C19: balance and history stay consistent: an account is created with an
\* empty history, and every step keeps, for every account, its balance
\* minus the net of its history (credits and loans minus debits) as it was,
\* so in every state the balance is the registered initial balance plus
\* credits and loans minus debits, and no step shows a record without its
\* balance change or a balance change without its record.
C19_BalanceMatchesHistory ==
    [][/\ \A u \in DOMAIN accounts' \ DOMAIN accounts :
            accounts'[u].transactions = << >>
       /\ \A u \in DOMAIN accounts :
            /\ accounts[u].balance - Net(accounts[u].transactions)
                  \in {DefaultBalance} \cup {b[1] : b \in BalanceInputs \ {<< >>}}
            /\ accounts'[u].balance - Net(accounts'[u].transactions)
                  = accounts[u].balance - Net(accounts[u].transactions)
      ]_vars

\* An account registered with 1000 has sent 600 and taken a loan of 10000,
\* and holds 10400.
C19_Witness ==
    \E u \in DOMAIN accounts :
       /\ accounts[u].balance = 10400
       /\ Len(accounts[u].transactions) = 2
       /\ \E i, j \in 1..2 :
            /\ accounts[u].transactions[i].type = "debit"
            /\ accounts[u].transactions[j].type = "loan"

\* ---------------------------------------------------------------------
\* C20: sessions and accounts only grow and stay linked: in every state
\* every session token maps to a userId that has an account, so a request
\* that passes authentication finds its caller's account; and no step
\* removes an account or a session entry, so a token that resolves keeps
\* resolving to an account.
C20_GrowAndStayLinked ==
    [][/\ \A t \in DOMAIN sessions : sessions[t] \in DOMAIN accounts
       /\ \A t \in TokenInputs : authenticate(t) => Has(accounts, sessions[t])
       /\ DOMAIN accounts \subseteq DOMAIN accounts'
       /\ DOMAIN sessions \subseteq DOMAIN sessions'
       /\ \A t \in DOMAIN sessions' : sessions'[t] \in DOMAIN accounts'
      ]_vars

\* Both tokens are issued, to different accounts, and the last request
\* allowed has been handled.
C20_Witness ==
    /\ DOMAIN sessions = Tokens
    /\ \E t1, t2 \in Tokens : sessions[t1] # sessions[t2]
    /\ requestCount = MaxRequests

====
